---- MODULE Spec2Model ----
(***************************************************************************)
(* SysMon: the snapshot capture and alerting pipeline of SystemMonitor     *)
(* (src/core.py) over the pydantic data model (src/src/sysmon/models.py).  *)
(*                                                                         *)
(* Percentages are floats in the code; the model uses integers, which      *)
(* keeps every comparison the code makes (>=, ==, sort order).             *)
(* Optional[T] is a sequence of length 0 (None) or 1.                      *)
(* A provider reading is [raises, value]: the query raised, or returned    *)
(* value (an Optional, for the queries that may return None).              *)
(***************************************************************************)
EXTENDS Integers, Sequences, FiniteSets, TLC

VARIABLES
    alert_config,   \* SystemMonitor.alert_config, fixed at construction
    pc,             \* position of the call in progress
    opts,           \* arguments of the capture_snapshot call in progress
    locals,         \* get_cpu_info's locals cpu_percent, per_cpu_percent
    snapshot,       \* the sub-results and the SystemSnapshot being assembled
    returned,       \* Optional: the snapshot capture_snapshot returned
    raised,         \* Optional: the sub-call whose failure capture_snapshot re-raised
    calls,          \* provider queries made by the call in progress, in order
    invoked,        \* SystemMonitor methods invoked by the call in progress, in order
    faults,         \* failures that occurred inside the call in progress
    args,           \* arguments of a direct call of one of the get_*/check_alerts methods
    ret             \* what that direct call returned

vars == <<alert_config, pc, opts, locals, snapshot, returned, raised, calls,
          invoked, faults, args, ret>>

(***************************************************************************)
(* Bounds of the model.                                                    *)
(***************************************************************************)
MaxProcs == 3       \* longest process enumeration of a direct get_top_processes call
MaxCount == 3       \* largest count passed to get_top_processes
MaxIfaces == 3      \* most interfaces reporting I/O counters
BytesPerGb == 4     \* model scale of a GB, in model bytes
BytesPerMb == 2     \* model scale of a MB, in model bytes

(***************************************************************************)
(* Program constants.                                                      *)
(***************************************************************************)
CriticalPercent == 95
DefaultCpuThreshold == 80
DefaultMemoryThreshold == 85
DefaultDiskThreshold == 90
SampleInterval == 1
DefaultProcessCount == 5

None == <<>>
Some(v) == <<v>>
Min(a, b) == IF a <= b THEN a ELSE b
Max(a, b) == IF a >= b THEN a ELSE b

Raises == [raises |-> TRUE, value |-> None]
Reads(v) == [raises |-> FALSE, value |-> Some(v)]
ReadsNone == [raises |-> FALSE, value |-> None]

\* what a method call comes to: its return value, or the exception it raises
\* (cause: "provider" for a provider error, "validation" for a pydantic one)
Ok(v) == [ok |-> TRUE, value |-> Some(v), cause |-> "none"]
Err(cause) == [ok |-> FALSE, value |-> None, cause |-> cause]

(***************************************************************************)
(* Unit conversion helpers (sysmon.utils).                                 *)
(***************************************************************************)
bytes_to_gb(b) == b \div BytesPerGb
bytes_to_mb(b) == b \div BytesPerMb

(***************************************************************************)
(* Data model: the pydantic field constraints.                             *)
(***************************************************************************)
ValidCPUInfo(percent, count) ==
    /\ percent >= 0 /\ percent <= 100
    /\ count # None
    /\ count[1] > 0

\* mutant: the upper limit of percent is not enforced
ValidMemoryInfo_NoUpper(m) ==
    /\ m.total_gb > 0
    /\ m.used_gb >= 0
    /\ m.available_gb >= 0
    /\ m.percent >= 0

ValidMemoryInfo(m) ==
    /\ m.total_gb > 0
    /\ m.used_gb >= 0
    /\ m.available_gb >= 0
    /\ m.percent >= 0 /\ m.percent <= 100

ValidDiskInfo(d) ==
    /\ d.total_gb > 0
    /\ d.used_gb >= 0
    /\ d.free_gb >= 0
    /\ d.percent >= 0 /\ d.percent <= 100

ValidDiskIOInfo(io) ==
    /\ io.read_bytes_mb >= 0 /\ io.write_bytes_mb >= 0
    /\ io.read_count >= 0 /\ io.write_count >= 0
    /\ io.read_time_ms >= 0 /\ io.write_time_ms >= 0

ValidNetworkInfo(n) ==
    /\ n.bytes_sent >= 0 /\ n.bytes_recv >= 0
    /\ n.packets_sent >= 0 /\ n.packets_recv >= 0

ValidAlertConfig(c) ==
    /\ c.cpu_threshold >= 0 /\ c.cpu_threshold <= 100
    /\ c.memory_threshold >= 0 /\ c.memory_threshold <= 100
    /\ c.disk_threshold >= 0 /\ c.disk_threshold <= 100

DefaultAlertConfig ==
    [cpu_threshold |-> DefaultCpuThreshold,
     memory_threshold |-> DefaultMemoryThreshold,
     disk_threshold |-> DefaultDiskThreshold,
     enabled |-> TRUE]

EmptySnapshot ==
    [system |-> None, cpu |-> None, memory |-> None, disk |-> None,
     network |-> None, disk_io |-> None, network_interfaces |-> None,
     top_processes |-> <<>>, alerts |-> <<>>, constructed |-> FALSE]

NoLocals == [cpu_percent |-> None, per_cpu_percent |-> None]


(***************************************************************************)
(* Provider queries, as recorded in calls.                                 *)
(***************************************************************************)
Query(name) == [q |-> name, interval |-> None, percpu |-> FALSE]
CpuPercentQuery(interval, percpu) ==
    [q |-> "cpu_percent", interval |-> Some(interval), percpu |-> percpu]

SystemQueries ==
    <<Query("platform.system"), Query("platform.version"),
      Query("platform.node"), Query("platform.machine")>>

(***************************************************************************)
(* What the provider may answer during a capture.                          *)
(***************************************************************************)
SystemReadings == 0..Len(SystemQueries)     \* index of the query that raises, 0: none
CpuPercentReadings == {Raises, Reads(-1), Reads(81), Reads(96), Reads(101)}
PerCpuReadings == {Raises, Reads(<<70, 92>>)}
CpuFreqReadings == {Raises, ReadsNone, Reads(2400)}
CpuCountReadings == {Raises, ReadsNone, Reads(0), Reads(2)}

MemoryReadings ==
    {Raises,
     Reads([total |-> 8 * BytesPerGb, used |-> 4 * BytesPerGb,
            available |-> 4 * BytesPerGb, percent |-> 50]),
     Reads([total |-> 8 * BytesPerGb, used |-> 7 * BytesPerGb,
            available |-> 1 * BytesPerGb, percent |-> 90]),
     Reads([total |-> 0, used |-> 0, available |-> 0, percent |-> 0]),
     Reads([total |-> 8 * BytesPerGb, used |-> -1 * BytesPerGb,
            available |-> 4 * BytesPerGb, percent |-> 50]),
     Reads([total |-> 8 * BytesPerGb, used |-> 4 * BytesPerGb,
            available |-> -1 * BytesPerGb, percent |-> 50]),
     Reads([total |-> 8 * BytesPerGb, used |-> 8 * BytesPerGb,
            available |-> 0, percent |-> 101])}

DiskReadings ==
    {Raises,
     Reads([total |-> 6 * BytesPerGb, used |-> 3 * BytesPerGb,
            free |-> 3 * BytesPerGb, percent |-> 50]),
     Reads([total |-> 6 * BytesPerGb, used |-> 5 * BytesPerGb,
            free |-> 1 * BytesPerGb, percent |-> 91]),
     Reads([total |-> 0, used |-> 0, free |-> 0, percent |-> 0]),
     Reads([total |-> 6 * BytesPerGb, used |-> 3 * BytesPerGb,
            free |-> -1 * BytesPerGb, percent |-> 50]),
     Reads([total |-> 6 * BytesPerGb, used |-> 6 * BytesPerGb,
            free |-> 0, percent |-> -1])}

NetworkReadings ==
    {Raises,
     Reads([bytes_sent |-> 3 * BytesPerMb, bytes_recv |-> 5 * BytesPerMb,
            packets_sent |-> 7, packets_recv |-> 9]),
     Reads([bytes_sent |-> 3 * BytesPerMb, bytes_recv |-> 5 * BytesPerMb,
            packets_sent |-> -1, packets_recv |-> 9])}

DiskIOReadings ==
    {Raises, ReadsNone,
     Reads([read_bytes |-> 4 * BytesPerMb, write_bytes |-> 2 * BytesPerMb,
            read_count |-> 11, write_count |-> 6,
            read_time |-> 30, write_time |-> 20]),
     Reads([read_bytes |-> 4 * BytesPerMb, write_bytes |-> 2 * BytesPerMb,
            read_count |-> -1, write_count |-> 6,
            read_time |-> 30, write_time |-> 20])}

(***************************************************************************)
(* The required sub-calls: Ok(record), or Err when the method raises.      *)
(***************************************************************************)
get_system_info(failsAt) ==
    IF failsAt # 0 THEN Err("provider")
    ELSE Ok([os |-> "Linux", hostname |-> "host"])

\* the tail of get_cpu_info: cpu_freq(), then CPUInfo(... count=cpu_count() ...)
build_cpu_info(cpu_percent, per_cpu_percent, freq, count) ==
    IF freq.raises \/ count.raises THEN Err("provider")
    ELSE IF ~ValidCPUInfo(cpu_percent, count.value) THEN Err("validation")
    ELSE Ok([percent |-> cpu_percent, count |-> count.value[1],
             frequency |-> freq.value, per_cpu |-> per_cpu_percent])

get_memory_info(mem) ==
    IF mem.raises THEN Err("provider")
    ELSE LET info == [total_gb |-> bytes_to_gb(mem.value[1].total),
                      used_gb |-> bytes_to_gb(mem.value[1].used),
                      available_gb |-> bytes_to_gb(mem.value[1].available),
                      percent |-> mem.value[1].percent]
         IN IF ValidMemoryInfo(info) THEN Ok(info) ELSE Err("validation")

get_disk_info(disk) ==
    IF disk.raises THEN Err("provider")
    ELSE LET info == [total_gb |-> bytes_to_gb(disk.value[1].total),
                      used_gb |-> bytes_to_gb(disk.value[1].used),
                      free_gb |-> bytes_to_gb(disk.value[1].free),
                      percent |-> disk.value[1].percent,
                      mount_point |-> "/"]
         IN IF ValidDiskInfo(info) THEN Ok(info) ELSE Err("validation")

get_network_info(net) ==
    IF net.raises THEN Err("provider")
    ELSE LET info == [bytes_sent |-> bytes_to_mb(net.value[1].bytes_sent),
                      bytes_recv |-> bytes_to_mb(net.value[1].bytes_recv),
                      packets_sent |-> net.value[1].packets_sent,
                      packets_recv |-> net.value[1].packets_recv]
         IN IF ValidNetworkInfo(info) THEN Ok(info) ELSE Err("validation")

(***************************************************************************)
(* get_disk_io_info: Optional[DiskIOInfo], never raises.                   *)
(***************************************************************************)
DiskIOInfoOf(c) ==
    [read_bytes_mb |-> bytes_to_mb(c.read_bytes),
     write_bytes_mb |-> bytes_to_mb(c.write_bytes),
     read_count |-> c.read_count,
     write_count |-> c.write_count,
     read_time_ms |-> c.read_time,
     write_time_ms |-> c.write_time]

get_disk_io_info(io) ==
    IF io.raises THEN None
    ELSE IF io.value = None THEN None
    ELSE IF ValidDiskIOInfo(DiskIOInfoOf(io.value[1]))
         THEN Some(DiskIOInfoOf(io.value[1]))
         ELSE None

\* a failure happened inside get_disk_io_info (its except branch ran)
disk_io_failed(io) ==
    \/ io.raises
    \/ /\ io.value # None
       /\ ~ValidDiskIOInfo(DiskIOInfoOf(io.value[1]))

(***************************************************************************)
(* get_network_interfaces: Optional[List[NetworkInterfaceInfo]].           *)
(* An enumeration is [raises, ifaces]: one of net_if_addrs, net_if_stats,  *)
(* net_io_counters(pernic) raised (raises: its index, 0 for none), or the  *)
(* interfaces reporting I/O counters, each with what net_if_stats and      *)
(* net_if_addrs hold for it:                                               *)
(*   stat: "up", "down", "none" (no entry), "bad" (reading isup raises)    *)
(*   addr: "ipv4", "other" (no AF_INET address), "none" (no entry),        *)
(*         "bad" (reading an address's family raises)                      *)
(***************************************************************************)
InterfaceQueries ==
    <<Query("net_if_addrs"), Query("net_if_stats"), Query("net_io_counters_pernic")>>

StatKinds == {"up", "down", "none", "bad"}
AddrKinds == {"ipv4", "other", "none", "bad"}

\* the body of the per-interface try: Ok(NetworkInterfaceInfo) or Err (skipped)
interface_info(iface) ==
    IF iface.addr = "bad" THEN Err("provider")
    ELSE IF iface.stat = "bad" THEN Err("provider")
    ELSE Ok([name |-> iface.name,
             is_up |-> IF iface.stat = "none" THEN TRUE ELSE iface.stat = "up",
             ip_addr |-> IF iface.addr = "ipv4" THEN Some(iface.name) ELSE None])

\* mutant: no per-interface try, the first failing interface ends the loop
RECURSIVE collect_interfaces_aborts(_, _, _)
collect_interfaces_aborts(ifaces, i, interfaces) ==
    IF i > Len(ifaces) THEN interfaces
    ELSE LET r == interface_info(ifaces[i])
         IN IF r.ok
            THEN collect_interfaces_aborts(ifaces, i + 1, Append(interfaces, r.value[1]))
            ELSE <<>>

RECURSIVE collect_interfaces(_, _, _)
collect_interfaces(ifaces, i, interfaces) ==
    IF i > Len(ifaces) THEN interfaces
    ELSE LET r == interface_info(ifaces[i])
         IN IF r.ok
            THEN collect_interfaces(ifaces, i + 1, Append(interfaces, r.value[1]))
            ELSE collect_interfaces(ifaces, i + 1, interfaces)

get_network_interfaces(enum) ==
    IF enum.raises # 0 THEN None
    ELSE LET interfaces == collect_interfaces(enum.ifaces, 1, <<>>)
         IN IF interfaces # <<>> THEN Some(interfaces) ELSE None

interface_queries(enum) ==
    IF enum.raises = 0 THEN InterfaceQueries
    ELSE SubSeq(InterfaceQueries, 1, enum.raises)

(***************************************************************************)
(* get_top_processes: List[ProcessInfo], never raises.                     *)
(* An enumeration is [raises, procs]: process_iter raised, or the          *)
(* processes it yielded, each with                                         *)
(*   access: "ok", or the psutil error reading its info raises,            *)
(*           "NoSuchProcess" / "AccessDenied", or "error" (any other)      *)
(*   pid, cpu_percent (Optional: None when the provider has no reading)    *)
(*   valid: its name, memory_percent and status make a ProcessInfo         *)
(***************************************************************************)
AccessKinds == {"ok", "NoSuchProcess", "AccessDenied", "error"}

\* mutant: the per-process except catches every exception, as the
\* per-interface one does
process_step_isolated(p) ==
    IF p.access # "ok" THEN "skip"
    ELSE IF p.pid = 0 THEN "skip"
    ELSE IF (IF p.cpu_percent = None THEN 0 ELSE p.cpu_percent[1]) = 0 THEN "skip"
    ELSE IF ~p.valid THEN "skip"
    ELSE "append"

\* one iteration of the for loop: what it does with the process
process_step(p) ==
    IF p.access \in {"NoSuchProcess", "AccessDenied"} THEN "skip"
    ELSE IF p.access # "ok" THEN "abort"
    ELSE IF p.pid = 0 THEN "skip"
    ELSE IF (IF p.cpu_percent = None THEN 0 ELSE p.cpu_percent[1]) = 0 THEN "skip"
    ELSE IF ~p.valid THEN "abort"
    ELSE "append"

ProcessInfoOf(p) == [pid |-> p.pid, cpu_percent |-> p.cpu_percent[1]]

RECURSIVE collect_processes(_, _, _)
collect_processes(procs, i, processes) ==
    IF i > Len(procs) THEN Ok(processes)
    ELSE LET step == process_step(procs[i])
         IN IF step = "abort" THEN Err("provider")
            ELSE IF step = "skip" THEN collect_processes(procs, i + 1, processes)
            ELSE collect_processes(procs, i + 1,
                                   Append(processes, ProcessInfoOf(procs[i])))

\* mutant: a sort that puts a later process before an earlier one of equal usage
RECURSIVE insert_desc_unstable(_, _)
insert_desc_unstable(sorted, x) ==
    IF sorted = <<>> THEN <<x>>
    ELSE IF Head(sorted).cpu_percent > x.cpu_percent
         THEN <<Head(sorted)>> \o insert_desc_unstable(Tail(sorted), x)
         ELSE <<x>> \o sorted

\* list.sort(key=cpu_percent, reverse=True): stable, ties keep their order
RECURSIVE insert_desc(_, _)
insert_desc(sorted, x) ==
    IF sorted = <<>> THEN <<x>>
    ELSE IF Head(sorted).cpu_percent >= x.cpu_percent
         THEN <<Head(sorted)>> \o insert_desc(Tail(sorted), x)
         ELSE <<x>> \o sorted

RECURSIVE sort_desc(_, _, _)
sort_desc(processes, i, sorted) ==
    IF i > Len(processes) THEN sorted
    ELSE sort_desc(processes, i + 1, insert_desc(sorted, processes[i]))

\* mutant: processes[:count + 1]
slice_to_inclusive(processes, count) ==
    IF count + 1 >= 0 THEN SubSeq(processes, 1, Min(count + 1, Len(processes)))
    ELSE SubSeq(processes, 1, Max(Len(processes) + count + 1, 0))

\* processes[:count]
slice_to(processes, count) ==
    IF count >= 0 THEN SubSeq(processes, 1, Min(count, Len(processes)))
    ELSE SubSeq(processes, 1, Max(Len(processes) + count, 0))

get_top_processes(enum, count) ==
    IF enum.raises THEN <<>>
    ELSE LET r == collect_processes(enum.procs, 1, <<>>)
         IN IF ~r.ok THEN <<>>
            ELSE slice_to(sort_desc(r.value[1], 1, <<>>), count)

(***************************************************************************)
(* check_alerts: List[Alert].                                              *)
(***************************************************************************)
\* mutant: critical only above the escalation point
severity_of_strict(percent) == IF percent > CriticalPercent THEN "critical" ELSE "warning"

severity_of(percent) == IF percent >= CriticalPercent THEN "critical" ELSE "warning"

AlertOf(type, percent, threshold) ==
    [alert_type |-> type, severity |-> severity_of(percent),
     current_value |-> percent, threshold |-> threshold]

\* mutant: an exclusive threshold
check_category_strict(type, percent, threshold) ==
    IF percent > threshold THEN <<AlertOf(type, percent, threshold)>> ELSE <<>>

check_category(type, percent, threshold) ==
    IF percent >= threshold THEN <<AlertOf(type, percent, threshold)>> ELSE <<>>

check_alerts(config, cpu, memory, disk) ==
    IF ~config.enabled THEN <<>>
    ELSE check_category("cpu", cpu.percent, config.cpu_threshold)
         \o check_category("memory", memory.percent, config.memory_threshold)
         \o check_category("disk", disk.percent, config.disk_threshold)


(***************************************************************************)
(* Inputs: the callers' arguments and the provider's enumerations.         *)
(***************************************************************************)
Proc(pid, cpu, access, valid) ==
    [pid |-> pid, cpu_percent |-> cpu, access |-> access, valid |-> valid]

\* what may be observed of one enumerated process; zero: it is pid 0
ProcObservations ==
    {[zero |-> TRUE, cpu |-> Some(1), access |-> "ok", valid |-> TRUE]}
    \cup {[zero |-> FALSE, cpu |-> c, access |-> "ok", valid |-> TRUE] :
            c \in {None, Some(0), Some(1), Some(2)}}
    \cup {[zero |-> FALSE, cpu |-> Some(1), access |-> a, valid |-> TRUE] :
            a \in AccessKinds \ {"ok"}}
    \cup {[zero |-> FALSE, cpu |-> Some(2), access |-> "ok", valid |-> FALSE]}

\* pids are unique: a process that is not pid 0 has its position as pid
ProcEnumOf(obs) ==
    [raises |-> FALSE,
     procs |-> [i \in 1..Len(obs) |->
                  Proc(IF obs[i].zero THEN 0 ELSE i, obs[i].cpu,
                       obs[i].access, obs[i].valid)]]

\* pid 0 and a zero-usage process among five qualifying ones
ScenarioProcs ==
    <<Proc(0, Some(9), "ok", TRUE), Proc(1, Some(3), "ok", TRUE),
      Proc(2, Some(0), "ok", TRUE), Proc(3, Some(8), "ok", TRUE),
      Proc(4, Some(3), "ok", TRUE), Proc(5, Some(5), "ok", TRUE),
      Proc(6, Some(1), "ok", TRUE)>>

ProcEnums ==
    {[raises |-> TRUE, procs |-> <<>>], [raises |-> FALSE, procs |-> ScenarioProcs]}
    \cup {ProcEnumOf(obs) : obs \in UNION {[1..n -> ProcObservations] : n \in 0..MaxProcs}}

Counts == (-2)..MaxCount

IfaceEnumOf(kinds) ==
    [raises |-> 0,
     ifaces |-> [i \in 1..Len(kinds) |->
                   [name |-> i, stat |-> kinds[i][1], addr |-> kinds[i][2]]]]

IfaceEnums ==
    {[raises |-> k, ifaces |-> <<>>] : k \in 1..Len(InterfaceQueries)}
    \cup {IfaceEnumOf(kinds) :
            kinds \in UNION {[1..n -> StatKinds \X AddrKinds] : n \in 0..MaxIfaces}}

\* snapshot percentages and thresholds a direct check_alerts call is tried on
CpuPercents == {0, 79, 80, 81, 94, 95, 96, 100}
MemoryPercents == {0, 50, 84, 85, 90, 94, 95, 100}
DiskPercents == {0, 50, 89, 90, 91, 94, 95, 100}

AlertConfigs ==
    {c \in [cpu_threshold : {0, DefaultCpuThreshold, 96, 100},
            memory_threshold : {0, DefaultMemoryThreshold, CriticalPercent, 100},
            disk_threshold : {0, DefaultDiskThreshold, 91, 100},
            enabled : BOOLEAN] : ValidAlertConfig(c)}

\* the inputs of a capture
CaptureAlertConfigs ==
    {DefaultAlertConfig,
     [DefaultAlertConfig EXCEPT !.enabled = FALSE],
     [cpu_threshold |-> 100, memory_threshold |-> 0,
      disk_threshold |-> CriticalPercent, enabled |-> TRUE]}

Options ==
    [per_cpu : BOOLEAN, include_processes : BOOLEAN,
     process_count : {-1, 1, DefaultProcessCount},
     include_disk_io : BOOLEAN, include_network_interfaces : BOOLEAN,
     check_alerts : BOOLEAN]

CaptureProcEnums ==
    {[raises |-> TRUE, procs |-> <<>>],
     [raises |-> FALSE, procs |-> <<>>],
     [raises |-> FALSE, procs |-> ScenarioProcs],
     [raises |-> FALSE,
      procs |-> <<Proc(1, Some(4), "ok", TRUE), Proc(2, Some(7), "NoSuchProcess", TRUE),
                  Proc(3, Some(6), "ok", TRUE)>>],
     [raises |-> FALSE,
      procs |-> <<Proc(1, Some(4), "ok", TRUE), Proc(2, Some(5), "ok", FALSE)>>]}

CaptureIfaceEnums ==
    {[raises |-> 1, ifaces |-> <<>>],
     [raises |-> 0, ifaces |-> <<>>],
     [raises |-> 0, ifaces |-> <<[name |-> 1, stat |-> "bad", addr |-> "ipv4"]>>],
     [raises |-> 0,
      ifaces |-> <<[name |-> 1, stat |-> "up", addr |-> "ipv4"],
                   [name |-> 2, stat |-> "down", addr |-> "bad"],
                   [name |-> 3, stat |-> "none", addr |-> "other"]>>]}

Required == {"system", "cpu", "memory", "disk", "network"}

(***************************************************************************)
(* capture_snapshot, one action per sub-call.                              *)
(***************************************************************************)
\* the except branch of capture_snapshot: log and re-raise
Fail(category, cause) ==
    /\ pc' = "done"
    /\ raised' = Some(category)
    /\ returned' = None
    /\ faults' = faults \cup {category, cause}
    /\ snapshot' = EmptySnapshot
    /\ locals' = NoLocals

\* a required sub-call returned r: keep its record, or fail the capture
Proceed(field, r, next) ==
    IF r.ok
    THEN /\ snapshot' = [snapshot EXCEPT ![field] = r.value]
         /\ pc' = next
         /\ UNCHANGED <<returned, raised, faults, locals>>
    ELSE Fail(field, r.cause)

CaptureSnapshot ==
    /\ pc = "idle"
    /\ \E o \in Options : opts' = o
    /\ pc' = "get_system_info"
    /\ snapshot' = EmptySnapshot
    /\ locals' = NoLocals
    /\ returned' = None
    /\ raised' = None
    /\ calls' = <<>>
    /\ invoked' = <<"capture_snapshot">>
    /\ faults' = {}
    /\ UNCHANGED <<alert_config, args, ret>>

GetSystemInfo ==
    /\ pc = "get_system_info"
    /\ invoked' = Append(invoked, "get_system_info")
    /\ \E k \in SystemReadings :
        /\ calls' = calls \o (IF k = 0 THEN SystemQueries ELSE SubSeq(SystemQueries, 1, k))
        /\ Proceed("system", get_system_info(k), "cpu_aggregate")
    /\ UNCHANGED <<alert_config, opts, args, ret>>

\* cpu_percent = psutil.cpu_percent(interval=1)
CpuSampleAggregate ==
    /\ pc = "cpu_aggregate"
    /\ invoked' = Append(invoked, "get_cpu_info")
    /\ calls' = Append(calls, CpuPercentQuery(SampleInterval, FALSE))
    /\ \E r \in CpuPercentReadings :
        IF r.raises THEN Fail("cpu", "provider")
        ELSE /\ locals' = [locals EXCEPT !.cpu_percent = r.value]
             /\ pc' = IF opts.per_cpu THEN "cpu_percore" ELSE "cpu_build"
             /\ UNCHANGED <<snapshot, returned, raised, faults>>
    /\ UNCHANGED <<alert_config, opts, args, ret>>

\* mutant: the per-core sample blocks for the interval as well
CpuSamplePerCore_Blocking ==
    /\ pc = "cpu_percore"
    /\ calls' = Append(calls, CpuPercentQuery(SampleInterval, TRUE))
    /\ \E r \in PerCpuReadings :
        IF r.raises THEN Fail("cpu", "provider")
        ELSE /\ locals' = [locals EXCEPT !.per_cpu_percent = r.value]
             /\ pc' = "cpu_build"
             /\ UNCHANGED <<snapshot, returned, raised, faults>>
    /\ UNCHANGED <<alert_config, opts, invoked, args, ret>>

\* per_cpu_percent = psutil.cpu_percent(interval=0, percpu=True)
CpuSamplePerCore ==
    /\ pc = "cpu_percore"
    /\ calls' = Append(calls, CpuPercentQuery(0, TRUE))
    /\ \E r \in PerCpuReadings :
        IF r.raises THEN Fail("cpu", "provider")
        ELSE /\ locals' = [locals EXCEPT !.per_cpu_percent = r.value]
             /\ pc' = "cpu_build"
             /\ UNCHANGED <<snapshot, returned, raised, faults>>
    /\ UNCHANGED <<alert_config, opts, invoked, args, ret>>

\* freq = psutil.cpu_freq(); return CPUInfo(..., count=psutil.cpu_count(), ...)
CpuBuild ==
    /\ pc = "cpu_build"
    /\ \E freq \in CpuFreqReadings, count \in CpuCountReadings :
        /\ calls' = IF freq.raises THEN Append(calls, Query("cpu_freq"))
                    ELSE calls \o <<Query("cpu_freq"), Query("cpu_count")>>
        /\ LET r == build_cpu_info(locals.cpu_percent[1], locals.per_cpu_percent,
                                   freq, count)
           IN IF r.ok
              THEN /\ snapshot' = [snapshot EXCEPT !.cpu = r.value]
                   /\ pc' = "get_memory_info"
                   /\ locals' = NoLocals
                   /\ UNCHANGED <<returned, raised, faults>>
              ELSE Fail("cpu", r.cause)
    /\ UNCHANGED <<alert_config, opts, invoked, args, ret>>

\* mutant: a failing get_memory_info is absorbed and the capture goes on
GetMemoryInfo_Swallows ==
    /\ pc = "get_memory_info"
    /\ invoked' = Append(invoked, "get_memory_info")
    /\ calls' = Append(calls, Query("virtual_memory"))
    /\ \E mem \in MemoryReadings :
        LET r == get_memory_info(mem)
        IN /\ snapshot' = [snapshot EXCEPT
                             !.memory = IF r.ok THEN r.value
                                        ELSE Some([total_gb |-> 0, used_gb |-> 0,
                                                   available_gb |-> 0, percent |-> 0])]
           /\ faults' = faults \cup (IF r.ok THEN {} ELSE {"memory", r.cause})
           /\ pc' = "get_disk_info"
           /\ UNCHANGED <<returned, raised, locals>>
    /\ UNCHANGED <<alert_config, opts, args, ret>>

GetMemoryInfo ==
    /\ pc = "get_memory_info"
    /\ invoked' = Append(invoked, "get_memory_info")
    /\ calls' = Append(calls, Query("virtual_memory"))
    /\ \E mem \in MemoryReadings : Proceed("memory", get_memory_info(mem), "get_disk_info")
    /\ UNCHANGED <<alert_config, opts, args, ret>>

GetDiskInfo ==
    /\ pc = "get_disk_info"
    /\ invoked' = Append(invoked, "get_disk_info")
    /\ calls' = Append(calls, Query("disk_usage"))
    /\ \E disk \in DiskReadings : Proceed("disk", get_disk_info(disk), "get_network_info")
    /\ UNCHANGED <<alert_config, opts, args, ret>>

\* the last required sub-call; with it the SystemSnapshot is constructed
GetNetworkInfo ==
    /\ pc = "get_network_info"
    /\ invoked' = Append(invoked, "get_network_info")
    /\ calls' = Append(calls, Query("net_io_counters"))
    /\ \E net \in NetworkReadings :
        LET r == get_network_info(net)
        IN IF r.ok
           THEN /\ snapshot' = [snapshot EXCEPT !.network = r.value,
                                                !.top_processes = <<>>,
                                                !.constructed = TRUE]
                /\ pc' = "get_disk_io_info"
                /\ UNCHANGED <<returned, raised, faults, locals>>
           ELSE Fail("network", r.cause)
    /\ UNCHANGED <<alert_config, opts, args, ret>>

\* mutant: get_disk_io_info has no except branch, a provider error propagates
GetDiskIoInfo_Propagates ==
    /\ pc = "get_disk_io_info"
    /\ IF opts.include_disk_io
       THEN /\ invoked' = Append(invoked, "get_disk_io_info")
            /\ calls' = Append(calls, Query("disk_io_counters"))
            /\ \E io \in DiskIOReadings :
                IF disk_io_failed(io) THEN Fail("disk_io", "provider")
                ELSE /\ snapshot' = [snapshot EXCEPT !.disk_io = get_disk_io_info(io)]
                     /\ pc' = "get_network_interfaces"
                     /\ UNCHANGED <<faults, locals, returned, raised>>
       ELSE /\ pc' = "get_network_interfaces"
            /\ UNCHANGED <<invoked, calls, snapshot, faults, locals, returned, raised>>
    /\ UNCHANGED <<alert_config, opts, args, ret>>

\* if include_disk_io: snapshot.disk_io = self.get_disk_io_info()
GetDiskIoInfo ==
    /\ pc = "get_disk_io_info"
    /\ pc' = "get_network_interfaces"
    /\ IF opts.include_disk_io
       THEN /\ invoked' = Append(invoked, "get_disk_io_info")
            /\ calls' = Append(calls, Query("disk_io_counters"))
            /\ \E io \in DiskIOReadings :
                /\ snapshot' = [snapshot EXCEPT !.disk_io = get_disk_io_info(io)]
                /\ faults' = faults \cup (IF disk_io_failed(io) THEN {"disk_io"} ELSE {})
       ELSE UNCHANGED <<invoked, calls, snapshot, faults>>
    /\ UNCHANGED <<alert_config, opts, locals, returned, raised, args, ret>>

\* failures inside get_network_interfaces: of the enumeration, of one interface
interface_faults(enum) ==
    (IF enum.raises # 0 THEN {"network_interfaces"} ELSE {})
    \cup (IF \E i \in 1..Len(enum.ifaces) : ~interface_info(enum.ifaces[i]).ok
          THEN {"interface_detail"} ELSE {})

\* if include_network_interfaces: snapshot.network_interfaces = ...
GetNetworkInterfaces ==
    /\ pc = "get_network_interfaces"
    /\ pc' = "get_top_processes"
    /\ IF opts.include_network_interfaces
       THEN /\ invoked' = Append(invoked, "get_network_interfaces")
            /\ \E enum \in CaptureIfaceEnums :
                /\ calls' = calls \o interface_queries(enum)
                /\ snapshot' = [snapshot EXCEPT
                                  !.network_interfaces = get_network_interfaces(enum)]
                /\ faults' = faults \cup interface_faults(enum)
       ELSE UNCHANGED <<invoked, calls, snapshot, faults>>
    /\ UNCHANGED <<alert_config, opts, locals, returned, raised, args, ret>>

\* failures inside get_top_processes: of the whole call, of one skipped process
process_faults(enum) ==
    (IF enum.raises \/ ~collect_processes(enum.procs, 1, <<>>).ok
     THEN {"top_processes"} ELSE {})
    \cup (IF \E i \in 1..Len(enum.procs) :
                enum.procs[i].access \in {"NoSuchProcess", "AccessDenied"}
          THEN {"process_skipped"} ELSE {})

\* if include_processes: snapshot.top_processes = self.get_top_processes(count)
GetTopProcesses ==
    /\ pc = "get_top_processes"
    /\ pc' = "check_alerts"
    /\ IF opts.include_processes
       THEN /\ invoked' = Append(invoked, "get_top_processes")
            /\ calls' = Append(calls, Query("process_iter"))
            /\ \E enum \in CaptureProcEnums :
                /\ snapshot' = [snapshot EXCEPT
                                  !.top_processes =
                                      get_top_processes(enum, opts.process_count)]
                /\ faults' = faults \cup process_faults(enum)
       ELSE UNCHANGED <<invoked, calls, snapshot, faults>>
    /\ UNCHANGED <<alert_config, opts, locals, returned, raised, args, ret>>

\* mutant: the alerts are evaluated whatever the check_alerts toggle says
CheckAlertsAndReturn_Always ==
    /\ pc = "check_alerts"
    /\ pc' = "done"
    /\ LET final == [snapshot EXCEPT
                      !.alerts = check_alerts(alert_config, snapshot.cpu[1],
                                              snapshot.memory[1], snapshot.disk[1])]
       IN /\ snapshot' = final
          /\ returned' = Some(final)
    /\ invoked' = Append(invoked, "check_alerts")
    /\ UNCHANGED <<alert_config, opts, locals, raised, calls, faults, args, ret>>

\* if check_alerts: snapshot.alerts = self.check_alerts(snapshot); return snapshot
CheckAlertsAndReturn ==
    /\ pc = "check_alerts"
    /\ pc' = "done"
    /\ LET final == IF opts.check_alerts
                    THEN [snapshot EXCEPT
                            !.alerts = check_alerts(alert_config, snapshot.cpu[1],
                                                    snapshot.memory[1], snapshot.disk[1])]
                    ELSE snapshot
       IN /\ snapshot' = final
          /\ returned' = Some(final)
    /\ invoked' = IF opts.check_alerts THEN Append(invoked, "check_alerts") ELSE invoked
    /\ UNCHANGED <<alert_config, opts, locals, raised, calls, faults, args, ret>>

\* the caller has the result; the monitor is ready for the next call
CallReturns ==
    /\ pc = "done"
    /\ pc' = "idle"
    /\ snapshot' = EmptySnapshot
    /\ returned' = None
    /\ raised' = None
    /\ calls' = <<>>
    /\ invoked' = <<>>
    /\ faults' = {}
    /\ args' = [op |-> "none"]
    /\ ret' = None
    /\ UNCHANGED <<alert_config, opts, locals>>

(***************************************************************************)
(* Direct calls of the independently callable methods.                     *)
(***************************************************************************)
CallCheckAlerts ==
    /\ pc = "idle"
    /\ pc' = "done"
    /\ \E c \in CpuPercents, m \in MemoryPercents, d \in DiskPercents :
        /\ args' = [op |-> "check_alerts", cpu |-> c, memory |-> m, disk |-> d]
        /\ ret' = check_alerts(alert_config, [percent |-> c], [percent |-> m],
                               [percent |-> d])
    /\ UNCHANGED <<alert_config, opts, locals, snapshot, returned, raised, calls,
                   invoked, faults>>

CallGetTopProcesses ==
    /\ pc = "idle"
    /\ pc' = "done"
    /\ \E enum \in ProcEnums, count \in Counts :
        /\ args' = [op |-> "get_top_processes", enum |-> enum, count |-> count]
        /\ ret' = get_top_processes(enum, count)
    /\ UNCHANGED <<alert_config, opts, locals, snapshot, returned, raised, calls,
                   invoked, faults>>

CallGetNetworkInterfaces ==
    /\ pc = "idle"
    /\ pc' = "done"
    /\ \E enum \in IfaceEnums :
        /\ args' = [op |-> "get_network_interfaces", enum |-> enum]
        /\ ret' = get_network_interfaces(enum)
    /\ UNCHANGED <<alert_config, opts, locals, snapshot, returned, raised, calls,
                   invoked, faults>>

(***************************************************************************)
(* Specifications.                                                         *)
(***************************************************************************)
InitWith(configs) ==
    /\ alert_config \in configs
    /\ pc = "idle"
    /\ opts = [per_cpu |-> FALSE, include_processes |-> TRUE,
               process_count |-> DefaultProcessCount, include_disk_io |-> TRUE,
               include_network_interfaces |-> FALSE, check_alerts |-> TRUE]
    /\ locals = NoLocals
    /\ snapshot = EmptySnapshot
    /\ returned = None
    /\ raised = None
    /\ calls = <<>>
    /\ invoked = <<>>
    /\ faults = {}
    /\ args = [op |-> "none"]
    /\ ret = None

Init == InitWith(CaptureAlertConfigs)

Next ==
    \/ CaptureSnapshot
    \/ GetSystemInfo
    \/ CpuSampleAggregate
    \/ CpuSamplePerCore
    \/ CpuBuild
    \/ GetMemoryInfo
    \/ GetDiskInfo
    \/ GetNetworkInfo
    \/ GetDiskIoInfo
    \/ GetNetworkInterfaces
    \/ GetTopProcesses
    \/ CheckAlertsAndReturn
    \/ CallReturns

Spec == Init /\ [][Next]_vars

\* check_alerts called directly, for every configuration
InitAlerts == InitWith(AlertConfigs)
NextAlerts == CallCheckAlerts \/ CallReturns
SpecAlerts == InitAlerts /\ [][NextAlerts]_vars

\* get_top_processes called directly
InitProcs == InitWith({DefaultAlertConfig})
NextProcs == CallGetTopProcesses \/ CallReturns
SpecProcs == InitProcs /\ [][NextProcs]_vars

\* get_network_interfaces called directly
InitIfaces == InitWith({DefaultAlertConfig})
NextIfaces == CallGetNetworkInterfaces \/ CallReturns
SpecIfaces == InitIfaces /\ [][NextIfaces]_vars


(***************************************************************************)
(* Properties.                                                             *)
(***************************************************************************)
Elems(seq) == {seq[i] : i \in 1..Len(seq)}
Returned == returned[1]
OptionalHandled == pc = "done" /\ "capture_snapshot" \in Elems(invoked)
RequiredPopulated(snap) ==
    /\ snap.constructed
    /\ snap.system # None /\ snap.cpu # None /\ snap.memory # None
    /\ snap.disk # None /\ snap.network # None

\* C1: if one of the five required sub-calls fails, capture_snapshot fails to
\* its caller with that failure and returns no snapshot; a snapshot is
\* returned only when all five required sub-calls were made and succeeded.
C1_RequiredFailureAborts ==
    /\ faults \cap Required # {} =>
          /\ pc = "done"
          /\ returned = None
          /\ raised # None
          /\ faults \cap Required = {raised[1]}
    /\ returned # None =>
          /\ faults \cap Required = {}
          /\ raised = None
          /\ {"get_system_info", "get_cpu_info", "get_memory_info", "get_disk_info",
              "get_network_info"} \subseteq Elems(invoked)
          /\ RequiredPopulated(Returned)

\* C1 witness: get_disk_info failed after three sub-calls had succeeded, and
\* the capture ended raising, with no snapshot.
C1_Witness ==
    /\ pc = "done"
    /\ raised = Some("disk")
    /\ returned = None
    /\ invoked = <<"capture_snapshot", "get_system_info", "get_cpu_info",
                   "get_memory_info", "get_disk_info">>

\* C2 as stated: the optional sub-calls never propagate, and ANY failure inside
\* one of them leaves its field absent / absent / empty in the returned snapshot.
C2_AnyFailureGivesAbsent ==
    (OptionalHandled /\ faults \cap Required = {}) =>
        /\ returned # None
        /\ RequiredPopulated(Returned)
        /\ "disk_io" \in faults => Returned.disk_io = None
        /\ faults \cap {"network_interfaces", "interface_detail"} # {} =>
              Returned.network_interfaces = None
        /\ faults \cap {"top_processes", "process_skipped"} # {} =>
              Returned.top_processes = <<>>

\* C2 amended: the optional sub-calls never propagate (a capture fails only
\* with a required sub-call's failure, and returns a snapshot with all
\* required fields otherwise); a failure of the call as a whole leaves its
\* field absent / absent / empty, while a failure confined to one interface
\* or to one vanished or access-denied process does not.
C2_WholeCallFailureGivesAbsent ==
    /\ raised # None => raised[1] \in Required
    /\ (OptionalHandled /\ faults \cap Required = {}) =>
        /\ returned # None
        /\ RequiredPopulated(Returned)
        /\ "disk_io" \in faults => Returned.disk_io = None
        /\ "network_interfaces" \in faults => Returned.network_interfaces = None
        /\ "top_processes" \in faults => Returned.top_processes = <<>>

\* C2 witness: disk I/O was asked for and failed inside get_disk_io_info; the
\* capture returned a snapshot with the required fields and no disk_io.
C2_Witness ==
    /\ pc = "done"
    /\ returned # None
    /\ opts.include_disk_io
    /\ "disk_io" \in faults
    /\ "top_processes" \in faults
    /\ RequiredPopulated(Returned)
    /\ Returned.disk_io = None
    /\ Returned.top_processes = <<>>

AlertsOfType(alerts, type) == {i \in 1..Len(alerts) : alerts[i].alert_type = type}
CheckAlertsCalled == pc = "done" /\ args.op = "check_alerts"
ThresholdOf(type) ==
    IF type = "cpu" THEN alert_config.cpu_threshold
    ELSE IF type = "memory" THEN alert_config.memory_threshold
    ELSE alert_config.disk_threshold
PercentOf(type) ==
    IF type = "cpu" THEN args.cpu ELSE IF type = "memory" THEN args.memory ELSE args.disk

\* C3: check_alerts returns, for each category of cpu, memory and disk, exactly
\* one alert when alerts are enabled and the category's percent >= its
\* threshold, and none otherwise: at most three alerts, none when disabled.
C3_OneAlertPerCrossedThreshold ==
    CheckAlertsCalled =>
        /\ \A type \in {"cpu", "memory", "disk"} :
              Cardinality(AlertsOfType(ret, type)) =
                  IF alert_config.enabled /\ PercentOf(type) >= ThresholdOf(type)
                  THEN 1 ELSE 0
        /\ \A i \in 1..Len(ret) : ret[i].alert_type \in {"cpu", "memory", "disk"}
        /\ Len(ret) <= 3
        /\ ~alert_config.enabled => ret = <<>>

\* C3 witness: cpu exactly at its threshold alerts, memory one unit below its
\* threshold does not.
C3_Witness ==
    /\ CheckAlertsCalled
    /\ alert_config.enabled
    /\ args.cpu = alert_config.cpu_threshold
    /\ args.memory = alert_config.memory_threshold - 1
    /\ Cardinality(AlertsOfType(ret, "cpu")) = 1
    /\ AlertsOfType(ret, "memory") = {}

\* C4: every alert is critical if its category's percent >= 95 and warning
\* otherwise, whatever the thresholds; with the default thresholds 96/50/50
\* gives one critical cpu alert and 81/90/91 gives three warnings.
C4_SeverityFixedAt95 ==
    CheckAlertsCalled =>
        /\ \A i \in 1..Len(ret) :
              /\ ret[i].current_value = PercentOf(ret[i].alert_type)
              /\ ret[i].severity =
                    IF PercentOf(ret[i].alert_type) >= 95 THEN "critical" ELSE "warning"
        /\ (alert_config = DefaultAlertConfig /\ args.cpu = 96 /\ args.memory = 50
               /\ args.disk = 50) =>
              /\ Len(ret) = 1
              /\ ret[1].alert_type = "cpu" /\ ret[1].severity = "critical"
        /\ (alert_config = DefaultAlertConfig /\ args.cpu = 81 /\ args.memory = 90
               /\ args.disk = 91) =>
              /\ Len(ret) = 3
              /\ ret[1].alert_type = "cpu" /\ ret[2].alert_type = "memory"
              /\ ret[3].alert_type = "disk"
              /\ \A i \in 1..3 : ret[i].severity = "warning"

\* C4 witness: a percent of exactly 95 is critical under a threshold of 0 and a
\* percent of 94 is a warning, in one call.
C4_Witness ==
    /\ CheckAlertsCalled
    /\ alert_config.enabled
    /\ alert_config.cpu_threshold = 0 /\ args.cpu = 95
    /\ alert_config.memory_threshold = 0 /\ args.memory = 94
    /\ Len(ret) >= 2
    /\ ret[1].severity = "critical"
    /\ ret[2].severity = "warning"

TopProcessesCalled == pc = "done" /\ args.op = "get_top_processes"

\* C5 as stated, for the calls that return any entry: for every count N the
\* returned list has at most N entries.
C5_AtMostCountForEveryCount ==
    (TopProcessesCalled /\ ret # <<>>) => Len(ret) <= args.count

\* C5 amended: for every count N >= 0 the returned list has at most N entries
\* (a negative N is a slice bound processes[:N], not a length).
C5_AtMostCountWhenNonNegative ==
    (TopProcessesCalled /\ args.count >= 0) => Len(ret) <= args.count

\* C5 witness: three processes qualified and count 2 cut the list to two.
C5_Witness ==
    /\ TopProcessesCalled
    /\ args.count = 2
    /\ ~args.enum.raises
    /\ Len(args.enum.procs) = 3
    /\ \A i \in 1..3 : process_step(args.enum.procs[i]) = "append"
    /\ Len(ret) = 2


Qualifies(p) ==
    /\ p.access = "ok"
    /\ p.pid # 0
    /\ p.cpu_percent # None
    /\ p.cpu_percent[1] # 0

\* no failure ended the enumeration: process_iter did not raise, no process
\* raised anything but NoSuchProcess / AccessDenied, every kept record is valid
EnumerationSucceeds(enum) ==
    /\ ~enum.raises
    /\ \A i \in 1..Len(enum.procs) :
          /\ enum.procs[i].access # "error"
          /\ Qualifies(enum.procs[i]) => enum.procs[i].valid

\* C6: when the enumeration succeeds, the result is the leading part of the
\* qualifying processes (pid 0 and zero or missing cpu_percent removed, the
\* vanished and inaccessible ones skipped) in descending cpu_percent order,
\* ties in encounter order: `count` of them (all, when there are fewer), so
\* no entry has pid 0 or cpu_percent 0 and no omitted qualifying process
\* ranks before a returned one.
C6_TopByCpuStable ==
    (TopProcessesCalled /\ EnumerationSucceeds(args.enum)) =>
        LET procs == args.enum.procs
            Q == {i \in 1..Len(procs) : Qualifies(procs[i])}
            Src(k) == CHOOSE i \in Q : procs[i].pid = ret[k].pid
            Before(i, j) ==
                \/ procs[i].cpu_percent[1] > procs[j].cpu_percent[1]
                \/ /\ procs[i].cpu_percent[1] = procs[j].cpu_percent[1]
                   /\ i < j
        IN /\ \A k \in 1..Len(ret) :
                 /\ ret[k].pid # 0
                 /\ ret[k].cpu_percent # 0
                 /\ \E i \in Q : /\ procs[i].pid = ret[k].pid
                                 /\ procs[i].cpu_percent[1] = ret[k].cpu_percent
           /\ \A k, l \in 1..Len(ret) : k < l => Before(Src(k), Src(l))
           /\ \A i \in Q \ {Src(k) : k \in 1..Len(ret)} :
                 \A k \in 1..Len(ret) : Before(Src(k), i)
           /\ args.count >= 0 => Len(ret) = Min(args.count, Cardinality(Q))
           /\ args.count < 0 => Len(ret) = Max(Cardinality(Q) + args.count, 0)

\* C6 witness: pid 0 and a zero-usage process among five qualifying ones,
\* count 3: the three highest, the tie at 3 going to the earlier process.
C6_Witness ==
    /\ TopProcessesCalled
    /\ args.enum.procs = ScenarioProcs
    /\ args.count = 3
    /\ ret = <<[pid |-> 3, cpu_percent |-> 8], [pid |-> 5, cpu_percent |-> 5],
               [pid |-> 1, cpu_percent |-> 3]>>

InterfacesCalled == pc = "done" /\ args.op = "get_network_interfaces"
Usable(iface) == iface.stat # "bad" /\ iface.addr # "bad"

\* C7: an interface whose address or link-state detail fails is skipped and
\* every other interface is returned, in order; when the enumeration fails or
\* no interface is usable the result is absent, never an empty list.
C7_PerInterfaceIsolation ==
    InterfacesCalled =>
        LET ifaces == args.enum.ifaces
            U == {i \in 1..Len(ifaces) : Usable(ifaces[i])}
        IN /\ ret # Some(<<>>)
           /\ (args.enum.raises # 0 \/ U = {}) => ret = None
           /\ (args.enum.raises = 0 /\ U # {}) =>
                 /\ ret # None
                 /\ Len(ret[1]) = Cardinality(U)
                 /\ \A i \in U : \E k \in 1..Len(ret[1]) : ret[1][k].name = ifaces[i].name
                 /\ \A k \in 1..Len(ret[1]) :
                       /\ \E i \in U : ret[1][k].name = ifaces[i].name
                       /\ \A l \in 1..Len(ret[1]) : k < l => ret[1][k].name < ret[1][l].name

\* C7 witness: of three interfaces the second fails on its address; the first
\* and the third are returned.
C7_Witness ==
    /\ InterfacesCalled
    /\ args.enum.raises = 0
    /\ Len(args.enum.ifaces) = 3
    /\ args.enum.ifaces[2].addr = "bad"
    /\ ret # None
    /\ Len(ret[1]) = 2
    /\ ret[1][1].name = 1
    /\ ret[1][2].name = 3

Invoked(method) == method \in Elems(invoked)

TogglesRespected(snap) ==
    /\ RequiredPopulated(snap)
    /\ ~opts.include_disk_io =>
          snap.disk_io = None /\ ~Invoked("get_disk_io_info")
    /\ ~opts.include_network_interfaces =>
          snap.network_interfaces = None /\ ~Invoked("get_network_interfaces")
    /\ ~opts.include_processes =>
          snap.top_processes = <<>> /\ ~Invoked("get_top_processes")
    /\ ~opts.check_alerts =>
          snap.alerts = <<>> /\ ~Invoked("check_alerts")

\* C8 as stated, for the snapshots that list any process: the required fields
\* are populated, each optional field only per its toggle and without its
\* sub-call otherwise, and top_processes has at most process_count entries.
C8_TogglesAndCountForEveryCount ==
    returned # None =>
        /\ TogglesRespected(Returned)
        /\ (opts.include_processes /\ Returned.top_processes # <<>>) =>
              Len(Returned.top_processes) <= opts.process_count

\* C8 amended: as stated, with top_processes having at most process_count
\* entries when process_count >= 0.
C8_TogglesAndCountWhenNonNegative ==
    returned # None =>
        /\ TogglesRespected(Returned)
        /\ (opts.include_processes /\ opts.process_count >= 0) =>
              Len(Returned.top_processes) <= opts.process_count

\* C8 witness: every toggle off while cpu is at 96 under the default
\* thresholds: none of the optional fields is populated, no alert is raised
\* and only the required sub-calls were invoked.
C8_Witness ==
    /\ returned # None
    /\ ~opts.include_disk_io /\ ~opts.include_network_interfaces
    /\ ~opts.include_processes /\ ~opts.check_alerts
    /\ alert_config = DefaultAlertConfig
    /\ Returned.cpu[1].percent = 96
    /\ Returned.alerts = <<>>
    /\ invoked = <<"capture_snapshot", "get_system_info", "get_cpu_info",
                   "get_memory_info", "get_disk_info", "get_network_info">>

\* C9: every returned snapshot has cpu, memory and disk percent in [0,100],
\* cpu.count > 0, memory and disk total_gb > 0 and used / available / free
\* >= 0; a capture whose record failed validation returned no snapshot.
C9_ReturnedSnapshotIsValid ==
    /\ returned # None =>
          LET cpu == Returned.cpu[1]
              memory == Returned.memory[1]
              disk == Returned.disk[1]
          IN /\ cpu.percent >= 0 /\ cpu.percent <= 100
             /\ cpu.count > 0
             /\ memory.percent >= 0 /\ memory.percent <= 100
             /\ memory.total_gb > 0
             /\ memory.used_gb >= 0 /\ memory.available_gb >= 0
             /\ disk.percent >= 0 /\ disk.percent <= 100
             /\ disk.total_gb > 0
             /\ disk.used_gb >= 0 /\ disk.free_gb >= 0
    /\ "validation" \in faults => returned = None /\ raised # None

\* C9 witness: a capture returned a snapshot whose readings are all in range,
\* after the provider had its say on every required category.
C9_Witness ==
    /\ returned # None
    /\ Returned.cpu[1].percent = 96 /\ Returned.cpu[1].count = 2
    /\ Returned.memory[1].percent = 90 /\ Returned.memory[1].total_gb = 8
    /\ Returned.disk[1].percent = 91 /\ Returned.disk[1].free_gb = 1

AggregateSamples == {i \in 1..Len(calls) : calls[i].q = "cpu_percent" /\ ~calls[i].percpu}
PerCoreSamples == {i \in 1..Len(calls) : calls[i].q = "cpu_percent" /\ calls[i].percpu}
CpuQueries == {i \in 1..Len(calls) : calls[i].q \in {"cpu_percent", "cpu_freq", "cpu_count"}}

\* C10: no provider query is made twice in a call; once get_cpu_info is
\* entered the aggregate sample is taken exactly once, with a nonzero interval,
\* before any other CPU query; a per-core sample is taken at most once, only
\* when per_cpu is set, with interval 0, after the aggregate sample returned.
C10_SingleBlockingSample ==
    /\ \A i, j \in 1..Len(calls) : i < j => calls[i] # calls[j]
    /\ IF Invoked("get_cpu_info")
       THEN /\ Cardinality(AggregateSamples) = 1
            /\ \A i \in AggregateSamples :
                  /\ calls[i].interval # None
                  /\ calls[i].interval[1] > 0
                  /\ \A j \in CpuQueries : i <= j
       ELSE CpuQueries = {}
    /\ Cardinality(PerCoreSamples) <= 1
    /\ \A j \in PerCoreSamples :
          /\ opts.per_cpu
          /\ calls[j].interval = Some(0)
          /\ \E i \in AggregateSamples : i < j
    /\ pc = "cpu_percore" =>
          /\ locals.cpu_percent # None
          /\ PerCoreSamples = {}
          /\ AggregateSamples # {}

\* C10 witness: a capture with per_cpu returned; its per-core sample came
\* right after its one aggregate sample.
C10_Witness ==
    /\ returned # None
    /\ opts.per_cpu
    /\ Returned.cpu[1].per_cpu # None
    /\ \E i \in 1..(Len(calls) - 1) :
          /\ calls[i] = CpuPercentQuery(SampleInterval, FALSE)
          /\ calls[i + 1] = CpuPercentQuery(0, TRUE)


\* handling this process raises something other than NoSuchProcess or
\* AccessDenied: reading its info does, or constructing its ProcessInfo does
FailsOtherwise(p) ==
    \/ p.access = "error"
    \/ Qualifies(p) /\ ~p.valid

Vanished(p) == p.access \in {"NoSuchProcess", "AccessDenied"}

\* C11: in get_top_processes a vanished or access-denied process is skipped
\* on its own (the qualifying processes around it are still returned), while
\* any other failure on one enumerated process makes the whole call return
\* the empty list, whatever had been collected before it.
C11_OtherFailureDiscardsAll ==
    (TopProcessesCalled /\ ~args.enum.raises) =>
        LET procs == args.enum.procs
            Q == {i \in 1..Len(procs) : Qualifies(procs[i])}
        IN /\ (\E i \in 1..Len(procs) : FailsOtherwise(procs[i])) => ret = <<>>
           /\ ((\A i \in 1..Len(procs) : ~FailsOtherwise(procs[i]))
                  /\ args.count >= Cardinality(Q)) =>
                 /\ Len(ret) = Cardinality(Q)
                 /\ {ret[k].pid : k \in 1..Len(ret)} = {procs[i].pid : i \in Q}

\* C11 witness: a readable qualifying process, then a vanished one, then one
\* whose record fails ProcessInfo construction; count would admit them all,
\* and the call returns the empty list.
C11_Witness ==
    /\ TopProcessesCalled
    /\ ~args.enum.raises
    /\ Len(args.enum.procs) = 3
    /\ Qualifies(args.enum.procs[1]) /\ args.enum.procs[1].valid
    /\ Vanished(args.enum.procs[2])
    /\ Qualifies(args.enum.procs[3]) /\ ~args.enum.procs[3].valid
    /\ args.count = 3
    /\ ret = <<>>

====
